---- MODULE Spec2Model ----
(***************************************************************************)
(* Model of hand_tracking.py: the two tracker backends                     *)
(* (MediaPipeHandTracker, OpenCVHandTracker), the gesture derivation done  *)
(* by main() for every frame, and main()'s frame loop with its CSV and     *)
(* WebSocket toggles and the ws_handler coroutines.                        *)
(*                                                                         *)
(* Representation of Python values:                                        *)
(*   a point (x, y)            the tuple <<x, y>>                          *)
(*   None                      the empty tuple <<>>; the string "None"      *)
(*                             where the other values are strings          *)
(*   a dict                    a record / function on its keys             *)
(*   sqrt(n) for an integer n  the record [rad |-> n]                      *)
(*   sqrt(n) / sqrt(d)         the record [rad |-> n, den |-> d]           *)
(*   a / b (true division)     the record [num |-> a, den |-> b]           *)
(***************************************************************************)
EXTENDS Integers, Sequences, FiniteSets, TLC

VARIABLES pc, HAS_MEDIAPIPE, HAS_WEBSOCKETS, frame, contours, lms,
          history, hands, norm_hands, returned,
          nframes, csv_logging, csv_file, websocket_enabled,
          server, ws_clients, broadcast_queue, hpc, cur,
          queued, removed, attempts, wrote_closed

vars == <<pc, HAS_MEDIAPIPE, HAS_WEBSOCKETS, frame, contours, lms,
          history, hands, norm_hands, returned,
          nframes, csv_logging, csv_file, websocket_enabled,
          server, ws_clients, broadcast_queue, hpc, cur,
          queued, removed, attempts, wrote_closed>>

trackerVars == <<history, returned>>
loopVars == <<nframes, csv_logging, csv_file, websocket_enabled, wrote_closed>>
wsVars == <<server, ws_clients, broadcast_queue, hpc, cur, queued, removed, attempts>>

None == <<>>
NoName == "None"

(***************************************************************************)
(* Bounds of the model.                                                    *)
(***************************************************************************)
MaxContours == 3
MaxHull == 6
MaxTrackerFrames == 8
MaxFrames == 3
MaxClients == 2

(***************************************************************************)
(* Program constants.                                                      *)
(***************************************************************************)
MinArea == 2000
MaxHands == 2
TipSep == 25
MaxTips == 5
TopK == 3
HistoryLen == 6
PinchNum == 5
PinchDen == 100

(***************************************************************************)
(* Python helpers.                                                         *)
(***************************************************************************)
\* int(a / b) for an integer a and b > 0: truncation towards zero.
IntDiv(a, b) == IF a >= 0 THEN a \div b ELSE -((-a) \div b)

\* s[:n]
Take(s, n) == SubSeq(s, 1, IF Len(s) < n THEN Len(s) ELSE n)

RECURSIVE InsertByKey(_, _)
InsertByKey(srt, e) ==
    IF srt = <<>> THEN <<e>>
    ELSE IF e[1] < Head(srt)[1] THEN <<e>> \o srt
    ELSE <<Head(srt)>> \o InsertByKey(Tail(srt), e)

RECURSIVE SortPairs(_)
SortPairs(ps) ==
    IF ps = <<>> THEN <<>>
    ELSE InsertByKey(SortPairs(SubSeq(ps, 1, Len(ps) - 1)), ps[Len(ps)])

\* sorted(s, key=...): stable, ascending in key; key[i] is the key of s[i].
sorted(s, key) ==
    LET ps == SortPairs([i \in 1..Len(s) |-> <<key[i], s[i]>>])
    IN  [i \in 1..Len(s) |-> ps[i][2]]

\* dx*dx + dy*dy, the radicand of np.hypot(dx, dy) and of (dx*dx+dy*dy)**0.5
hypot2(p, q) == (p[1] - q[1]) * (p[1] - q[1]) + (p[2] - q[2]) * (p[2] - q[2])

(***************************************************************************)
(* OpenCVHandTracker                                                       *)
(***************************************************************************)
\* all(np.hypot(p[0]-q[0], p[1]-q[1]) > 25 for q in tips)
FarFromAll_ge(p, tips) ==
    \A i \in 1..Len(tips) : hypot2(p, tips[i]) >= TipSep * TipSep

FarFromAll(p, tips) ==
    \A i \in 1..Len(tips) : hypot2(p, tips[i]) > TipSep * TipSep

\* the loop "for p in hull_sorted" with its break
RECURSIVE WalkHull(_, _)
WalkHull(pts, tips) ==
    IF pts = <<>> THEN tips
    ELSE LET p == Head(pts)
             t == IF tips = <<>> THEN <<p>>
                  ELSE IF FarFromAll(p, tips) THEN Append(tips, p)
                  ELSE tips
         IN  IF Len(t) >= MaxTips THEN t ELSE WalkHull(Tail(pts), t)

\* topk = tips[:3]
topk_all(tips) == tips

topk(tips) == Take(tips, TopK)

\* A contour c is [area, m10, m01, hull]: cv2.contourArea(c), the first
\* moments of cv2.moments(c) and cv2.convexHull(c).  M['m00'] is the same
\* Green-formula area as cv2.contourArea(c).
extract_hand_info_from_contour(c, h, w) ==
    LET m00 == c.area
        center == IF m00 # 0
                  THEN <<IntDiv(c.m10, m00), IntDiv(c.m01, m00)>>
                  ELSE <<w \div 2, h \div 2>>
        hull_pts == c.hull
        hull_sorted == sorted(hull_pts, [i \in 1..Len(hull_pts) |-> hull_pts[i][2]])
        tips == WalkHull(hull_sorted, <<>>)
        tk == topk(tips)
        topk_sorted_x == sorted(tk, [i \in 1..Len(tk) |-> tk[i][1]])
        thumb == topk_sorted_x[1]
        index == topk_sorted_x[Len(topk_sorted_x)]
    IN  IF Len(tips) >= 2
        THEN [detected |-> TRUE, center |-> center, fingertips |-> tips,
              index_tip |-> index, thumb_tip |-> thumb,
              distance_index_thumb |-> [rad |-> hypot2(index, thumb)]]
        ELSE [detected |-> TRUE, center |-> center, fingertips |-> tips,
              index_tip |-> None, thumb_tip |-> None,
              distance_index_thumb |-> [rad |-> 0]]

\* contours_sorted[:2] with the area test of the loop body
RECURSIVE KeepLarge(_)
KeepLarge(cs) ==
    IF cs = <<>> THEN <<>>
    ELSE IF Head(cs).area < MinArea THEN KeepLarge(Tail(cs))
    ELSE <<Head(cs)>> \o KeepLarge(Tail(cs))

select_contours_noslice(cs) ==
    LET contours_sorted == sorted(cs, [i \in 1..Len(cs) |-> -cs[i].area])
    IN  KeepLarge(contours_sorted)

select_contours(cs) ==
    LET contours_sorted == sorted(cs, [i \in 1..Len(cs) |-> -cs[i].area])
    IN  KeepLarge(Take(contours_sorted, MaxHands))

\* the list process() returns for the contours of a frame
opencv_hands(cs, h, w) ==
    LET sel == select_contours(cs)
    IN  [i \in 1..Len(sel) |-> extract_hand_info_from_contour(sel[i], h, w)]

\* deque(maxlen=6).append
deque_append(d, x) ==
    IF Len(d) >= HistoryLen THEN Append(Tail(d), x) ELSE Append(d, x)

\* OpenCVHandTracker.process(frame); "returned" records what each call returned
OpenCVProcess ==
    /\ pc = "track"
    /\ ~HAS_MEDIAPIPE
    /\ hands' = opencv_hands(contours, frame.h, frame.w)
    /\ history' = IF contours = <<>> THEN history
                  ELSE deque_append(history, hands')
    /\ returned' = Append(returned, hands')
    /\ pc' = "derive"
    /\ UNCHANGED <<HAS_MEDIAPIPE, HAS_WEBSOCKETS, frame, contours, lms, norm_hands>>
    /\ UNCHANGED loopVars
    /\ UNCHANGED wsVars

(***************************************************************************)
(* MediaPipeHandTracker                                                    *)
(***************************************************************************)
\* A landmark l is <<nx, ny>> with l.x = nx / LmDen and l.y = ny / LmDen.
\* Only the landmarks process() reads are kept: wrist 0, thumb tip 4, index
\* tip 8, middle base 9, middle tip 12, ring tip 16, pinky tip 20.
LmDen == 48
LmIdx == {0, 4, 8, 9, 12, 16, 20}

\* (int(l.x * w), int(l.y * h))
lm_to_px(l, h, w) == <<IntDiv(l[1] * w, LmDen), IntDiv(l[2] * h, LmDen)>>

mediapipe_hand_info(lm, h, w) ==
    LET pts == [i \in LmIdx |-> lm_to_px(lm[i], h, w)]
    IN  [detected |-> TRUE,
         landmarks |-> pts,
         thumb_tip |-> pts[4],
         index_tip |-> pts[8],
         fingertips |-> <<pts[4], pts[8], pts[12], pts[16], pts[20]>>,
         fingertips_named |-> [thumb |-> pts[4], index |-> pts[8],
                               middle |-> pts[12], ring |-> pts[16],
                               pinky |-> pts[20]],
         center |-> <<IntDiv(pts[0][1] + pts[9][1], 2),
                      IntDiv(pts[0][2] + pts[9][2], 2)>>,
         distance_index_thumb |-> [rad |-> hypot2(pts[8], pts[4])],
         hand_size_norm |-> [rad |-> hypot2(pts[12], pts[0]),
                             den |-> w * w + h * h]]

\* MediaPipeHandTracker.process(frame); lms is results.multi_hand_landmarks
MediaPipeProcess ==
    /\ pc = "track"
    /\ HAS_MEDIAPIPE
    /\ hands' = [i \in 1..Len(lms) |-> mediapipe_hand_info(lms[i], frame.h, frame.w)]
    /\ pc' = "derive"
    /\ UNCHANGED <<HAS_MEDIAPIPE, HAS_WEBSOCKETS, frame, contours, lms, norm_hands>>
    /\ UNCHANGED trackerVars
    /\ UNCHANGED loopVars
    /\ UNCHANGED wsVars

(***************************************************************************)
(* Gesture derivation: the body of "for hi, info in enumerate(hands)"      *)
(***************************************************************************)
\* insertion order of the fingertips_named dict
FingerOrder == <<"thumb", "index", "middle", "ring", "pinky">>

Has(d, k) == k \in DOMAIN d

\* a dict with the single key k when cond holds, the empty dict otherwise
Opt(cond, k, v) == IF cond THEN k :> v ELSE <<>>

\* the keys of dist_map in insertion order
RECURSIVE KeysInOrder(_, _)
KeysInOrder(order, dom) ==
    IF order = <<>> THEN <<>>
    ELSE IF Head(order) \in dom THEN <<Head(order)>> \o KeysInOrder(Tail(order), dom)
    ELSE KeysInOrder(Tail(order), dom)

\* dist_map of lines 342-349
dist_map_of_all(info, diag2) ==
    [f \in DOMAIN info.fingertips_named |->
        [rad |-> hypot2(info.fingertips_named[f], info.thumb_tip), den |-> diag2]]

dist_map_of(info, diag2) ==
    [f \in (DOMAIN info.fingertips_named) \ {"thumb"} |->
        [rad |-> hypot2(info.fingertips_named[f], info.thumb_tip), den |-> diag2]]

\* v < pinch_thresh for v = sqrt(rad) / sqrt(den)
below_pinch_thresh_le(v) == v.rad * PinchDen * PinchDen <= PinchNum * PinchNum * v.den

below_pinch_thresh(v) == v.rad * PinchDen * PinchDen < PinchNum * PinchNum * v.den

\* finger_min of lines 352-356
finger_min_of(dist_map) ==
    IF DOMAIN dist_map = {} THEN NoName
    ELSE LET ks == KeysInOrder(FingerOrder, DOMAIN dist_map)
             f_sorted == sorted(ks, [i \in 1..Len(ks) |-> dist_map[ks[i]].rad])
         IN  IF below_pinch_thresh(dist_map[f_sorted[1]]) THEN f_sorted[1] ELSE NoName

\* side of lines 366-370; cx < w/2 is 2*cx < w
side_of_floor(info, w) ==
    IF info.center # None
    THEN (IF info.center[1] < w \div 2 THEN "left" ELSE "right")
    ELSE NoName

side_of(info, w) ==
    IF info.center # None
    THEN (IF 2 * info.center[1] < w THEN "left" ELSE "right")
    ELSE NoName

derive(info, h, w) ==
    LET diag2 == w * w + h * h
        has_map == info.thumb_tip # None /\ Has(info, "fingertips_named")
        dist_map == IF has_map THEN dist_map_of(info, diag2) ELSE <<>>
        finger_min == IF has_map THEN finger_min_of(dist_map) ELSE NoName
    IN  info
        @@ Opt(info.index_tip # None, "index_norm",
               <<[num |-> info.index_tip[1], den |-> w],
                 [num |-> info.index_tip[2], den |-> h]>>)
        @@ Opt(info.thumb_tip # None, "thumb_norm",
               <<[num |-> info.thumb_tip[1], den |-> w],
                 [num |-> info.thumb_tip[2], den |-> h]>>)
        @@ Opt(has_map, "finger_dist_norm", dist_map)
        @@ ("distance_norm" :> [rad |-> info.distance_index_thumb.rad, den |-> diag2])
        @@ Opt(finger_min # NoName, "pinch_finger", finger_min)
        @@ Opt(finger_min # NoName /\ has_map /\ finger_min \in DOMAIN dist_map,
               "pinch_distance_norm", dist_map[finger_min])
        @@ ("side" :> side_of(info, w))

\* lines 327-371: norm_hands for the hands of this frame
Derive ==
    /\ pc = "derive"
    /\ norm_hands' = [i \in 1..Len(hands) |-> derive(hands[i], frame.h, frame.w)]
    /\ pc' = "show"
    /\ UNCHANGED <<HAS_MEDIAPIPE, HAS_WEBSOCKETS, frame, contours, lms, hands>>
    /\ UNCHANGED trackerVars
    /\ UNCHANGED loopVars
    /\ UNCHANGED wsVars


(***************************************************************************)
(* main(): the frame loop                                                  *)
(***************************************************************************)
Clients == 1..MaxClients

\* cap.isOpened() and the automatic start_ws_server() of lines 225-315.
\* The server thread binds the port at once; the bind fails when the port
\* is taken (by this program's own listener or by another process).
StartupNoCamera ==
    /\ pc = "start"
    /\ pc' = "done"
    /\ UNCHANGED <<HAS_MEDIAPIPE, HAS_WEBSOCKETS, frame, contours, lms, hands, norm_hands>>
    /\ UNCHANGED trackerVars
    /\ UNCHANGED loopVars
    /\ UNCHANGED wsVars

Startup ==
    /\ pc = "start"
    /\ pc' = "read"
    /\ IF HAS_WEBSOCKETS
       THEN /\ websocket_enabled' = TRUE
            /\ server' \in BOOLEAN
       ELSE UNCHANGED <<websocket_enabled, server>>
    /\ UNCHANGED <<HAS_MEDIAPIPE, HAS_WEBSOCKETS, frame, contours, lms, hands, norm_hands>>
    /\ UNCHANGED trackerVars
    /\ UNCHANGED <<nframes, csv_logging, csv_file, wrote_closed>>
    /\ UNCHANGED <<ws_clients, broadcast_queue, hpc, cur, queued, removed, attempts>>

\* ret, frame = cap.read() with ret true.  An input is the frame's size,
\* the contours of its skin mask and the landmarks MediaPipe finds in it.
CapRead(inputs, maxn) ==
    /\ pc = "read"
    /\ nframes < maxn
    /\ \E inp \in inputs :
          /\ frame' = inp.frame
          /\ contours' = inp.contours
          /\ lms' = inp.lms
    /\ nframes' = nframes + 1
    /\ pc' = "track"
    /\ UNCHANGED <<HAS_MEDIAPIPE, HAS_WEBSOCKETS, hands, norm_hands>>
    /\ UNCHANGED trackerVars
    /\ UNCHANGED <<csv_logging, csv_file, websocket_enabled, wrote_closed>>
    /\ UNCHANGED wsVars

\* ret false: "Failed to read frame from camera", break
CapReadFail ==
    /\ pc = "read"
    /\ pc' = "finally"
    /\ UNCHANGED <<HAS_MEDIAPIPE, HAS_WEBSOCKETS, frame, contours, lms, hands, norm_hands>>
    /\ UNCHANGED trackerVars
    /\ UNCHANGED loopVars
    /\ UNCHANGED wsVars

\* waitKey returns no key, or a key without effect on the state modelled ('t')
KeyNone ==
    /\ pc = "show"
    /\ pc' = "log"
    /\ UNCHANGED <<HAS_MEDIAPIPE, HAS_WEBSOCKETS, frame, contours, lms, hands, norm_hands>>
    /\ UNCHANGED trackerVars
    /\ UNCHANGED loopVars
    /\ UNCHANGED wsVars

\* 'q' or ESC
KeyQuit ==
    /\ pc = "show"
    /\ pc' = "finally"
    /\ UNCHANGED <<HAS_MEDIAPIPE, HAS_WEBSOCKETS, frame, contours, lms, hands, norm_hands>>
    /\ UNCHANGED trackerVars
    /\ UNCHANGED loopVars
    /\ UNCHANGED wsVars

\* 'c' with csv_logging false: start_csv() up to and including open()
KeyC_start_open ==
    /\ pc = "show"
    /\ ~csv_logging
    /\ csv_file' = "open"
    /\ pc' = "start_csv"
    /\ UNCHANGED <<HAS_MEDIAPIPE, HAS_WEBSOCKETS, frame, contours, lms, hands, norm_hands>>
    /\ UNCHANGED trackerVars
    /\ UNCHANGED <<nframes, csv_logging, websocket_enabled, wrote_closed>>
    /\ UNCHANGED wsVars

\* start_csv() from csv.writer(...) on: the flag and the header row
start_csv_flag ==
    /\ pc = "start_csv"
    /\ csv_logging' = TRUE
    /\ wrote_closed' = (wrote_closed \/ csv_file # "open")
    /\ pc' = "log"
    /\ UNCHANGED <<HAS_MEDIAPIPE, HAS_WEBSOCKETS, frame, contours, lms, hands, norm_hands>>
    /\ UNCHANGED trackerVars
    /\ UNCHANGED <<nframes, csv_file, websocket_enabled>>
    /\ UNCHANGED wsVars

\* 'c' with csv_logging true: stop_csv() up to csv_logging = False
KeyC_stop_flag ==
    /\ pc = "show"
    /\ csv_logging
    /\ csv_logging' = FALSE
    /\ pc' = "stop_csv"
    /\ UNCHANGED <<HAS_MEDIAPIPE, HAS_WEBSOCKETS, frame, contours, lms, hands, norm_hands>>
    /\ UNCHANGED trackerVars
    /\ UNCHANGED <<nframes, csv_file, websocket_enabled, wrote_closed>>
    /\ UNCHANGED wsVars

\* stop_csv(): csv_file.close()
stop_csv_close ==
    /\ pc = "stop_csv"
    /\ csv_file' = "closed"
    /\ pc' = "log"
    /\ UNCHANGED <<HAS_MEDIAPIPE, HAS_WEBSOCKETS, frame, contours, lms, hands, norm_hands>>
    /\ UNCHANGED trackerVars
    /\ UNCHANGED <<nframes, csv_logging, websocket_enabled, wrote_closed>>
    /\ UNCHANGED wsVars

\* 'w' with websocket_enabled false: start_ws_server()
KeyW_start ==
    /\ pc = "show"
    /\ ~websocket_enabled
    /\ IF HAS_WEBSOCKETS
       THEN /\ websocket_enabled' = TRUE
            /\ server' \in (IF server THEN {TRUE} ELSE BOOLEAN)
       ELSE UNCHANGED <<websocket_enabled, server>>
    /\ pc' = "log"
    /\ UNCHANGED <<HAS_MEDIAPIPE, HAS_WEBSOCKETS, frame, contours, lms, hands, norm_hands>>
    /\ UNCHANGED trackerVars
    /\ UNCHANGED <<nframes, csv_logging, csv_file, wrote_closed>>
    /\ UNCHANGED <<ws_clients, broadcast_queue, hpc, cur, queued, removed, attempts>>

\* 'w' with websocket_enabled true: stop_ws_server() only clears the flag
KeyW_stop ==
    /\ pc = "show"
    /\ websocket_enabled
    /\ websocket_enabled' = FALSE
    /\ pc' = "log"
    /\ UNCHANGED <<HAS_MEDIAPIPE, HAS_WEBSOCKETS, frame, contours, lms, hands, norm_hands>>
    /\ UNCHANGED trackerVars
    /\ UNCHANGED <<nframes, csv_logging, csv_file, wrote_closed>>
    /\ UNCHANGED wsVars

\* a hand for which lines 408-412 write at least one row
HasRow(hinfo) == Has(hinfo, "index_norm") \/ Has(hinfo, "thumb_norm")

\* lines 405-412
LogRows ==
    /\ pc = "log"
    /\ wrote_closed' =
          (wrote_closed \/ (/\ csv_logging
                            /\ \E i \in 1..Len(norm_hands) : HasRow(norm_hands[i])
                            /\ csv_file # "open"))
    /\ pc' = "stream"
    /\ UNCHANGED <<HAS_MEDIAPIPE, HAS_WEBSOCKETS, frame, contours, lms, hands, norm_hands>>
    /\ UNCHANGED trackerVars
    /\ UNCHANGED <<nframes, csv_logging, csv_file, websocket_enabled>>
    /\ UNCHANGED wsVars

\* hinfo.get(k), hinfo.get(k, dflt)
Get(d, k, dflt) == IF k \in DOMAIN d THEN d[k] ELSE dflt

\* the payload of lines 415-429; 't' is the number of the frame
payload_of(t, nh) ==
    [t |-> t,
     hands |-> [i \in 1..Len(nh) |->
        [hand_id |-> i - 1,
         index |-> Get(nh[i], "index_norm", None),
         thumb |-> Get(nh[i], "thumb_norm", None),
         distance_norm |-> Get(nh[i], "distance_norm", None),
         side |-> Get(nh[i], "side", NoName),
         pinch_finger |-> Get(nh[i], "pinch_finger", NoName),
         pinch_distance_norm |-> Get(nh[i], "pinch_distance_norm", None),
         finger_dist_norm |-> Get(nh[i], "finger_dist_norm", <<>>),
         hand_size_norm |-> Get(nh[i], "hand_size_norm", [rad |-> 0, den |-> 1])]]]

\* lines 414-430
Stream ==
    /\ pc = "stream"
    /\ IF websocket_enabled /\ HAS_WEBSOCKETS /\ ws_clients # {}
       THEN LET msg == payload_of(nframes, norm_hands)
            IN  /\ broadcast_queue' = Append(broadcast_queue, msg)
                /\ queued' = Append(queued, msg)
       ELSE UNCHANGED <<broadcast_queue, queued>>
    /\ pc' = "read"
    /\ UNCHANGED <<HAS_MEDIAPIPE, HAS_WEBSOCKETS, frame, contours, lms, hands, norm_hands>>
    /\ UNCHANGED trackerVars
    /\ UNCHANGED loopVars
    /\ UNCHANGED <<server, ws_clients, hpc, cur, removed, attempts>>

InTry == pc \in {"read", "track", "derive", "show", "start_csv", "stop_csv", "log", "stream"}

\* Ctrl-C anywhere inside the try block
KeyboardInterrupt ==
    /\ InTry
    /\ pc' = "finally"
    /\ UNCHANGED <<HAS_MEDIAPIPE, HAS_WEBSOCKETS, frame, contours, lms, hands, norm_hands>>
    /\ UNCHANGED trackerVars
    /\ UNCHANGED loopVars
    /\ UNCHANGED wsVars

\* lines 433-438: tracker.close(), stop_csv(), cap.release(), destroyAllWindows()
Finally ==
    /\ pc = "finally"
    /\ IF csv_logging
       THEN /\ csv_logging' = FALSE
            /\ csv_file' = "closed"
       ELSE UNCHANGED <<csv_logging, csv_file>>
    /\ pc' = "done"
    /\ UNCHANGED <<HAS_MEDIAPIPE, HAS_WEBSOCKETS, frame, contours, lms, hands, norm_hands>>
    /\ UNCHANGED trackerVars
    /\ UNCHANGED <<nframes, websocket_enabled, wrote_closed>>
    /\ UNCHANGED wsVars

(***************************************************************************)
(* ws_handler: one coroutine per connected client, all on the event loop   *)
(* of the server thread.  A coroutine runs without interruption by other   *)
(* coroutines from one await to the next.                                  *)
(***************************************************************************)
\* broadcast_queue after msg = broadcast_queue.pop(0)
queue_after_pop_peek(q) == q

queue_after_pop(q) == Tail(q)

\* from the test "while broadcast_queue" to the next await of client c
HandlerRun(c, clients) ==
    /\ ws_clients' = clients
    /\ IF broadcast_queue # <<>>
       THEN /\ cur' = [cur EXCEPT ![c] = Head(broadcast_queue)]
            /\ broadcast_queue' = queue_after_pop(broadcast_queue)
            /\ removed' = Append(removed, Head(broadcast_queue))
            /\ hpc' = [hpc EXCEPT ![c] = "send"]
       ELSE /\ cur' = [cur EXCEPT ![c] = None]
            /\ hpc' = [hpc EXCEPT ![c] = "sleep"]
            /\ UNCHANGED <<broadcast_queue, removed>>

\* a client connects: ws_clients.add(websocket), then the loop
ws_handler_connect(c) ==
    /\ server
    /\ hpc[c] = "idle"
    /\ HandlerRun(c, ws_clients \cup {c})
    /\ UNCHANGED <<pc, HAS_MEDIAPIPE, HAS_WEBSOCKETS, frame, contours, lms, hands, norm_hands>>
    /\ UNCHANGED trackerVars
    /\ UNCHANGED loopVars
    /\ UNCHANGED <<server, queued, attempts>>

\* await websocket.send(msg) returns (ok) or raises (swallowed by "pass")
ws_handler_send(c) ==
    /\ hpc[c] = "send"
    /\ \E ok \in BOOLEAN :
          attempts' = Append(attempts, [msg |-> cur[c], client |-> c, ok |-> ok])
    /\ HandlerRun(c, ws_clients)
    /\ UNCHANGED <<pc, HAS_MEDIAPIPE, HAS_WEBSOCKETS, frame, contours, lms, hands, norm_hands>>
    /\ UNCHANGED trackerVars
    /\ UNCHANGED loopVars
    /\ UNCHANGED <<server, queued>>

\* await asyncio.sleep(0.001) returns
ws_handler_wake(c) ==
    /\ hpc[c] = "sleep"
    /\ HandlerRun(c, ws_clients)
    /\ UNCHANGED <<pc, HAS_MEDIAPIPE, HAS_WEBSOCKETS, frame, contours, lms, hands, norm_hands>>
    /\ UNCHANGED trackerVars
    /\ UNCHANGED loopVars
    /\ UNCHANGED <<server, queued, attempts>>


(***************************************************************************)
(* Inputs                                                                  *)
(***************************************************************************)
F640 == [w |-> 640, h |-> 480]
F75 == [w |-> 75, h |-> 100]

\* a contour of the given area whose centroid is (cx + 1/2, cy + 1/2)
Ctr(area, cx, cy, hull) ==
    [area |-> area, m10 |-> area * cx + area \div 2,
     m01 |-> area * cy + area \div 2, hull |-> hull]

HullA == << <<100, 100>>, <<180, 110>>, <<140, 200>> >>
HullS == << <<10, 5>>, <<60, 8>>, <<30, 90>>, <<5, 6>> >>
HullP == << <<20, 20>> >>

SelectPool ==
    { Ctr(1500, 100, 100, HullA), Ctr(1999, 200, 100, HullA),
      Ctr(2000, 300, 100, HullA), Ctr(2500, 319, 200, HullA),
      Ctr(2500, 320, 200, HullS), Ctr(3000, 400, 300, HullP) }

SeqsUpTo(S, n) == UNION { [1..k -> S] : k \in 0..n }

\* hull points: A and B, and B and E, are exactly 25 apart
TipGrid == { <<0, 0>>, <<15, 20>>, <<40, 0>>, <<80, 10>>,
             <<0, 40>>, <<40, 40>>, <<80, 50>> }

\* convex hulls: sequences of distinct points
Hulls ==
    UNION { { s \in [1..k -> TipGrid] : \A i, j \in 1..k : i # j => s[i] # s[j] }
            : k \in 1..MaxHull }

DerivePool(fr) ==
    IF fr.w = 75
    THEN { Ctr(2500, 37, 50, HullS), Ctr(2600, 37, 60, HullP),
           Ctr(2700, 38, 50, HullS) }
    ELSE { Ctr(2500, 319, 50, HullA), Ctr(2600, 320, 50, HullS),
           Ctr(2700, 320, 60, HullP), Ctr(1500, 10, 10, HullA) }

Pose(wr, th, ix, mb, mi, ri, pk) ==
    [i \in LmIdx |-> CASE i = 0 -> wr [] i = 4 -> th [] i = 8 -> ix
                       [] i = 9 -> mb [] i = 12 -> mi [] i = 16 -> ri
                       [] OTHER -> pk]

Wrists == { <<0, 48>>, <<48, 40>>, <<-4, 40>>, <<24, 40>> }
Thumbs == { <<0, 0>>, <<24, 24>> }
Indexes == { <<3, 0>>, <<2, 0>>, <<48, 48>>, <<52, -4>> }
Bases == { <<24, 30>>, <<23, 30>> }
Middles == { <<24, 28>>, <<0, 3>> }
Rings == { <<0, 3>>, <<40, 40>> }
Pinkies == { <<10, 40>> }

Poses ==
    { Pose(wr, th, ix, mb, mi, ri, pk) :
        wr \in Wrists, th \in Thumbs, ix \in Indexes, mb \in Bases,
        mi \in Middles, ri \in Rings, pk \in Pinkies }

PoseA == Pose(<<24, 40>>, <<24, 24>>, <<24, 10>>, <<24, 30>>, <<26, 8>>, <<28, 10>>, <<30, 14>>)
PoseB == Pose(<<24, 44>>, <<0, 0>>, <<2, 0>>, <<24, 30>>, <<0, 3>>, <<40, 40>>, <<10, 40>>)

LmResults ==
    {<<>>} \cup { <<p>> : p \in Poses }
           \cup { <<p, q>> : p \in Poses, q \in {PoseA, PoseB} }

Input(fr, cs, l) == [frame |-> fr, contours |-> cs, lms |-> l]

DeriveInputs(mp) ==
    IF mp THEN { Input(fr, <<>>, l) : fr \in {F640, F75}, l \in LmResults }
    ELSE UNION { { Input(fr, cs, <<>>) : cs \in SeqsUpTo(DerivePool(fr), MaxContours) }
                 : fr \in {F640, F75} }

HistInputs ==
    { Input(F640, cs, <<>>) :
        cs \in { <<>>, <<Ctr(1500, 100, 100, HullA)>>, <<Ctr(2500, 319, 200, HullA)>> } }

LoopInputs(mp) ==
    IF mp THEN { Input(F640, <<>>, l) : l \in { <<>>, <<PoseA>> } }
    ELSE { Input(F640, cs, <<>>) : cs \in { <<>>, <<Ctr(2500, 319, 200, HullA)>> } }

(***************************************************************************)
(* Specifications                                                          *)
(***************************************************************************)
\* everything but pc, the backend flags and the frame's input
InitRest ==
    /\ history = <<>>
    /\ hands = <<>>
    /\ norm_hands = <<>>
    /\ returned = <<>>
    /\ nframes = 0
    /\ csv_logging = FALSE
    /\ csv_file = "none"
    /\ websocket_enabled = FALSE
    /\ server = FALSE
    /\ ws_clients = {}
    /\ broadcast_queue = <<>>
    /\ hpc = [c \in Clients |-> "idle"]
    /\ cur = [c \in Clients |-> None]
    /\ queued = <<>>
    /\ removed = <<>>
    /\ attempts = <<>>
    /\ wrote_closed = FALSE

\* one frame in front of a tracker
InitFrame(mp, inputs) ==
    /\ pc = "track"
    /\ HAS_MEDIAPIPE = mp
    /\ HAS_WEBSOCKETS = FALSE
    /\ \E inp \in inputs :
          /\ frame = inp.frame
          /\ contours = inp.contours
          /\ lms = inp.lms
    /\ InitRest

\* main() before the camera is opened
InitMain(ws) ==
    /\ pc = "start"
    /\ HAS_MEDIAPIPE \in BOOLEAN
    /\ HAS_WEBSOCKETS \in ws
    /\ frame = None
    /\ contours = <<>>
    /\ lms = <<>>
    /\ InitRest

\* OpenCVHandTracker.process on the contour lists of SelectPool
InitSelect == InitFrame(FALSE, { Input(F640, cs, <<>>) : cs \in SeqsUpTo(SelectPool, MaxContours) })
NextSelect == OpenCVProcess \/ Derive
SpecSelect == InitSelect /\ [][NextSelect]_vars

\* OpenCVHandTracker.process on one contour with any hull of Hulls
InitTips == InitFrame(FALSE, { Input(F640, <<Ctr(2500, 320, 240, hl)>>, <<>>) : hl \in Hulls })
NextTips == OpenCVProcess \/ Derive
SpecTips == InitTips /\ [][NextTips]_vars

\* either tracker followed by the derivation
InitDerive == \E mp \in BOOLEAN : InitFrame(mp, DeriveInputs(mp))
NextDerive == MediaPipeProcess \/ OpenCVProcess \/ Derive
SpecDerive == InitDerive /\ [][NextDerive]_vars

\* the frame loop with the OpenCV tracker, no key pressed, no websockets
InitHistory ==
    /\ pc = "read"
    /\ HAS_MEDIAPIPE = FALSE
    /\ HAS_WEBSOCKETS = FALSE
    /\ frame = None
    /\ contours = <<>>
    /\ lms = <<>>
    /\ InitRest
NextHistory ==
    \/ CapRead(HistInputs, MaxTrackerFrames)
    \/ OpenCVProcess
    \/ Derive
    \/ KeyNone
    \/ LogRows
    \/ Stream
SpecHistory == InitHistory /\ [][NextHistory]_vars

\* main() with its keys, and the clients of the websocket server
Init == InitMain(BOOLEAN)
MainNext ==
    \/ StartupNoCamera
    \/ Startup
    \/ CapRead(LoopInputs(HAS_MEDIAPIPE), MaxFrames)
    \/ CapReadFail
    \/ MediaPipeProcess
    \/ OpenCVProcess
    \/ Derive
    \/ KeyNone
    \/ KeyQuit
    \/ KeyC_start_open
    \/ start_csv_flag
    \/ KeyC_stop_flag
    \/ stop_csv_close
    \/ KeyW_start
    \/ KeyW_stop
    \/ LogRows
    \/ Stream
    \/ KeyboardInterrupt
    \/ Finally
HandlerNext ==
    \E c \in Clients :
        \/ ws_handler_connect(c)
        \/ ws_handler_send(c)
        \/ ws_handler_wake(c)
Next == MainNext \/ HandlerNext
Spec == Init /\ [][Next]_vars


(***************************************************************************)
(* Properties                                                              *)
(***************************************************************************)
Min(a, b) == IF a < b THEN a ELSE b
Range(s) == { s[i] : i \in 1..Len(s) }
Processed == pc \in {"derive", "show"}

\* C1: process returns exactly one HandInfo for each contour left after
\* discarding the contours of area below 2000 and taking the at most 2
\* largest of the rest in descending area order: never more than 2 hands,
\* and no hand at all when there is no contour of area 2000 or more.
C1_Expected ==
    LET big == KeepLarge(contours)
    IN  Take(sorted(big, [i \in 1..Len(big) |-> -big[i].area]), 2)

C1_TwoLargestAboveThreshold ==
    Processed =>
        /\ Len(hands) <= 2
        /\ Len(hands) = Min(2, Cardinality({ i \in 1..Len(contours) : contours[i].area >= 2000 }))
        /\ hands = [i \in 1..Len(C1_Expected) |->
                       extract_hand_info_from_contour(C1_Expected[i], frame.h, frame.w)]
        /\ \A i \in 1..Len(C1_Expected) : C1_Expected[i].area >= 2000
        /\ \A i, j \in 1..Len(C1_Expected) :
              i < j => C1_Expected[i].area >= C1_Expected[j].area
        /\ (\A i \in 1..Len(contours) : contours[i].area < 2000) => hands = <<>>

\* three contours, two of them large enough and one too small: two hands
C1_Witness ==
    /\ Processed
    /\ Len(contours) = 3
    /\ contours[1].area < 2000
    /\ contours[2].area >= 2000
    /\ contours[3].area > contours[2].area
    /\ Len(hands) = 2

\* C2: the fingertips are at most 5 hull points, in non-decreasing vertical
\* coordinate, pairwise more than 25 pixels apart; a hull point is left out
\* only if it is within 25 pixels of a fingertip accepted before it or if 5
\* fingertips were accepted before it was reached.
C2_Fingertips ==
    (Processed /\ Len(hands) = 1 /\ Len(contours) = 1) =>
        LET hull == contours[1].hull
            tips == hands[1].fingertips
        IN  /\ Len(tips) <= 5
            /\ Range(tips) \subseteq Range(hull)
            /\ \A i, j \in 1..Len(tips) : i < j => tips[i][2] <= tips[j][2]
            /\ \A i, j \in 1..Len(tips) : i # j => hypot2(tips[i], tips[j]) > 625
            /\ \A p \in Range(hull) \ Range(tips) :
                  \/ \E q \in Range(tips) : q[2] <= p[2] /\ hypot2(p, q) <= 625
                  \/ Len(tips) = 5 /\ tips[5][2] <= p[2]

\* 5 fingertips from 6 hull points, the sixth exactly 25 pixels from one
C2_Witness ==
    /\ Processed
    /\ Len(hands) = 1
    /\ Len(contours[1].hull) = 6
    /\ Len(hands[1].fingertips) = 5
    /\ \E p \in Range(contours[1].hull) \ Range(hands[1].fingertips) :
          \E q \in Range(hands[1].fingertips) : hypot2(p, q) = 625

\* C3: with at least 2 fingertips, thumb_tip has the smallest and index_tip
\* the largest horizontal coordinate among the first 3 fingertips and
\* distance_index_thumb is their Euclidean distance; with fewer than 2
\* both tips are unset and the distance is 0.
C3_ThumbIndex ==
    (Processed /\ ~HAS_MEDIAPIPE) =>
        \A k \in 1..Len(hands) :
            LET info == hands[k]
                tips == info.fingertips
                first3 == { tips[i] : i \in 1..Min(3, Len(tips)) }
            IN  IF Len(tips) >= 2
                THEN /\ info.thumb_tip \in first3
                     /\ info.index_tip \in first3
                     /\ \A q \in first3 : info.thumb_tip[1] <= q[1]
                     /\ \A q \in first3 : q[1] <= info.index_tip[1]
                     /\ info.distance_index_thumb = [rad |-> hypot2(info.index_tip, info.thumb_tip)]
                ELSE /\ info.thumb_tip = None
                     /\ info.index_tip = None
                     /\ info.distance_index_thumb = [rad |-> 0]

\* a fourth fingertip lies to the left of the thumb
C3_Witness ==
    /\ Processed
    /\ ~HAS_MEDIAPIPE
    /\ Len(hands) = 1
    /\ Len(hands[1].fingertips) >= 4
    /\ hands[1].fingertips[4][1] < hands[1].thumb_tip[1]
    /\ hands[1].distance_index_thumb.rad > 0

\* C4: pinch_finger is set exactly when finger_dist_norm is non-empty and
\* its minimum is strictly below 0.05; it then names a finger with that
\* minimum and pinch_distance_norm is that minimum; otherwise neither
\* pinch_finger nor pinch_distance_norm is set.
C4_IsMin(fdn, f) == \A g \in DOMAIN fdn : fdn[f].rad <= fdn[g].rad

C4_Pinch ==
    pc = "show" =>
        \A k \in 1..Len(norm_hands) :
            LET nh == norm_hands[k]
                fdn == IF Has(nh, "finger_dist_norm") THEN nh.finger_dist_norm ELSE <<>>
                minBelow == \E f \in DOMAIN fdn :
                               C4_IsMin(fdn, f) /\ 400 * fdn[f].rad < fdn[f].den
            IN  /\ Has(nh, "pinch_finger") <=> minBelow
                /\ Has(nh, "pinch_distance_norm") <=> minBelow
                /\ Has(nh, "pinch_finger") =>
                      /\ nh.pinch_finger \in DOMAIN fdn
                      /\ C4_IsMin(fdn, nh.pinch_finger)
                      /\ nh.pinch_distance_norm = fdn[nh.pinch_finger]

\* the index finger is exactly at 0.05 of the diagonal, the middle is nearer
C4_Witness ==
    /\ pc = "show"
    /\ \E k \in 1..Len(norm_hands) :
          /\ Has(norm_hands[k], "pinch_finger")
          /\ norm_hands[k].pinch_finger = "middle"
          /\ 400 * norm_hands[k].finger_dist_norm["index"].rad
                = norm_hands[k].finger_dist_norm["index"].den

\* C5: for a hand with named fingertips, finger_dist_norm has exactly one
\* entry per named finger other than the thumb, each the non-negative
\* Euclidean distance of that finger to thumb_tip over the frame diagonal.
C5_FingerDistNorm ==
    pc = "show" =>
        \A k \in 1..Len(hands) :
            (Has(hands[k], "fingertips_named")
               /\ (DOMAIN hands[k].fingertips_named) \ {"thumb"} # {}) =>
                /\ Has(norm_hands[k], "finger_dist_norm")
                /\ DOMAIN norm_hands[k].finger_dist_norm
                      = (DOMAIN hands[k].fingertips_named) \ {"thumb"}
                /\ \A f \in DOMAIN norm_hands[k].finger_dist_norm :
                      /\ norm_hands[k].finger_dist_norm[f].rad >= 0
                      /\ norm_hands[k].finger_dist_norm[f].rad
                            = hypot2(hands[k].fingertips_named[f], hands[k].thumb_tip)
                      /\ norm_hands[k].finger_dist_norm[f].den
                            = frame.w * frame.w + frame.h * frame.h

\* two hands, one with a finger on the thumb and one a diagonal away
C5_Witness ==
    /\ pc = "show"
    /\ Len(norm_hands) = 2
    /\ \A k \in 1..2 : Has(norm_hands[k], "finger_dist_norm")
    /\ \E f \in DOMAIN norm_hands[1].finger_dist_norm :
          norm_hands[1].finger_dist_norm[f].rad = norm_hands[1].finger_dist_norm[f].den
    /\ \E f \in DOMAIN norm_hands[2].finger_dist_norm :
          norm_hands[2].finger_dist_norm[f].rad < 100

\* C6: index_norm and thumb_norm, when present, have both components in
\* [0, 1].
C6_InUnit(v) == 0 <= v.num /\ v.num <= v.den

C6_NormInUnitSquare ==
    pc = "show" =>
        \A k \in 1..Len(norm_hands) :
            /\ Has(norm_hands[k], "index_norm") =>
                  C6_InUnit(norm_hands[k].index_norm[1]) /\ C6_InUnit(norm_hands[k].index_norm[2])
            /\ Has(norm_hands[k], "thumb_norm") =>
                  C6_InUnit(norm_hands[k].thumb_norm[1]) /\ C6_InUnit(norm_hands[k].thumb_norm[2])

\* C7: side is 'left' exactly when center.x < w/2 and 'right' otherwise,
\* it is never null, and hands with the same center.x get the same side.
C7_Side ==
    pc = "show" =>
        /\ \A k \in 1..Len(norm_hands) :
              /\ norm_hands[k].side \in {"left", "right"}
              /\ norm_hands[k].side = "left" <=> 2 * hands[k].center[1] < frame.w
        /\ \A j, k \in 1..Len(norm_hands) :
              hands[j].center[1] = hands[k].center[1]
                 => norm_hands[j].side = norm_hands[k].side

\* two different hands whose centers are both exactly at w/2
C7_Witness ==
    /\ pc = "show"
    /\ Len(norm_hands) = 2
    /\ hands[1] # hands[2]
    /\ 2 * hands[1].center[1] = frame.w
    /\ 2 * hands[2].center[1] = frame.w
    /\ norm_hands[1].side = "right"

\* C8: every call of OpenCVHandTracker.process appends the list it returns
\* to history: after n calls history holds the lists returned by the last
\* min(n, 6) calls, in order.
C8_HistoryHoldsLastFrames ==
    LET n == Len(returned)
        m == Min(n, 6)
    IN  history = SubSeq(returned, n - m + 1, n)

\* C9: when main() has ended the CSV file is not open and the websocket
\* listener is not running, and no row was written to a closed file.
C9_ReleasedAtShutdown ==
    /\ pc = "done" => (csv_file # "open" /\ ~server)
    /\ ~wrote_closed

\* C10: the frame loop only appends to broadcast_queue and is never held
\* up by a send; every record queued is either still queued or was removed
\* once, in queue order; a record gets at most one send attempt over all
\* clients, and a record whose send failed is not queued again.
C10_Accounting ==
    /\ queued = removed \o broadcast_queue
    /\ \A i, j \in 1..Len(queued) : i # j => queued[i] # queued[j]
    /\ \A i, j \in 1..Len(attempts) : i # j => attempts[i].msg # attempts[j].msg
    /\ \A i \in 1..Len(attempts) :
          /\ attempts[i].msg \in Range(removed)
          /\ attempts[i].msg \notin Range(broadcast_queue)
    /\ \A c \in Clients :
          hpc[c] = "send" =>
              /\ cur[c] \in Range(removed)
              /\ cur[c] \notin Range(broadcast_queue)
              /\ \A i \in 1..Len(attempts) : attempts[i].msg # cur[c]
              /\ \A d \in Clients \ {c} : hpc[d] = "send" => cur[d] # cur[c]
    /\ pc = "stream" => ENABLED Stream

C10_LoopOnlyAppends ==
    pc' # pc =>
        /\ removed' = removed
        /\ attempts' = attempts
        /\ \/ broadcast_queue' = broadcast_queue
           \/ /\ Len(broadcast_queue') = Len(broadcast_queue) + 1
              /\ SubSeq(broadcast_queue', 1, Len(broadcast_queue)) = broadcast_queue

====
